---- MODULE Spec2Model ----
(***************************************************************************)
(* The pseudo-terminal session manager of src-tauri: PtyManager (pty.rs),  *)
(* the pty_* commands that wrap it behind the PtyState mutex               *)
(* (commands/pty.rs), and the two worker threads spawn starts per session  *)
(* (the output relay and the exit watcher).  Then the settings store of     *)
(* scanner/settings.rs: the updates of ~/.claude/settings.json through a   *)
(* temporary file and a rename.                                            *)
(***************************************************************************)
EXTENDS Integers, Sequences, FiniteSets, TLC

\* ------------------------------------------------------------------ bounds
NumCallers == 2
MaxIds == 2
MaxOut == 2
MaxIn == 3
\* threads that run settings updates, and updates they start in a behaviour
NumUpdaters == 2
MaxUpdates == 2
\* bytes of input in the specification of the writes of several callers
MaxInWrites == 4

\* ------------------------------------------------------- program constants
\* let mut buf = [0u8; 4096];
BufSize == 4096
\* U+FFFD REPLACEMENT CHARACTER, what from_utf8_lossy puts for an invalid sequence
Replacement == 65533

Callers == 1..NumCallers
Ids == 1..MaxIds
\* bytes a shell can print: the two bytes of U+00E9 (0xC3 0xA9), a valid
\* character together and invalid each on its own
ByteSet == {195, 169}
\* what callers pass as data to write (already a &str: valid text)
DataSet == {<<120, 121>>}
\* (cols, rows) the terminal opens with, and the sizes it is resized to
SpawnDims == {<<80, 24>>}
Dims == {<<80, 24>>, <<120, 40>>}
ExitCodes == {0, 1}

VARIABLES
    pc,            \* per caller: where its current command is
    op,            \* per caller: the command it runs and its arguments
    result,        \* per caller: the value its command returns
    before,        \* per caller: the manager's data when the command was invoked (history)
    io,            \* per caller: OS calls on a session's handles the command has made (history)
    spawnId,       \* per caller: the id local to the running spawn
    outerLock,     \* PtyState.0 : 0 = free, else the caller holding the guard
    innerLock,     \* PtyManager.instances : 0 = free, else the caller holding the guard
    outerPoisoned, \* PtyState.0 is poisoned
    innerPoisoned, \* PtyManager.instances is poisoned
    instances,     \* the HashMap<String, PtyInstance>: a function on the registered ids
    generated,     \* ids Uuid::new_v4 has produced
    inserts,       \* per id: number of instances ever inserted under it (history)
    proc,          \* per id: the shell process, "none" | "running" | "exited"
    exitCode,      \* per id: the exit code of the process, known once waited for
    ptyOut,        \* per id: bytes the process wrote that the relay has not read
    written,       \* per id: every byte the process wrote (history)
    stdin,         \* per id: bytes delivered to the pty's input by write_all
    winsize,       \* per id: the pty's size
    relay,         \* per id: the output relay thread, "none" | "read" | "emit" | "done"
    relayBuf,      \* per id: the chunk the relay holds (&buf[..n])
    readLog,       \* per id: the chunks the relay has read, in order (history)
    watcher,       \* per id: the exit watcher thread, "none" | "wait" | "emit" | "done"
    watcherCode,   \* per id: the status the watcher got from child.wait()
    outEvents,     \* per id tag: the "pty-output" events emitted with that id
    exitEvents,    \* per id tag: the codes of the "pty-exit" events emitted with that id
    settingsFile,  \* what the name ~/.claude/settings.json holds
    tempFile,      \* what the name ~/.claude/settings.json.tmp holds
    upc,           \* per updater: where its settings update is
    uop,           \* per updater: the update it runs and its argument
    utyped,        \* per updater: enabled_plugins of the ClaudeSettings it read
    uval,          \* per updater: the serde_json Value it read, then modified
    uresult,       \* per updater: the value its update returns
    hnd,           \* per updater: the file its open handle of fs::write is on
    ubefore,       \* per updater: settings.json when the update was invoked (history)
    started        \* number of updates invoked (history)

callerVars == <<pc, op, result, before, io, spawnId>>
lockVars == <<outerLock, innerLock, outerPoisoned, innerPoisoned>>
mgrVars == <<instances, generated, inserts>>
ptyVars == <<stdin, winsize>>
procVars == <<proc, exitCode, ptyOut, written>>
relayVars == <<relay, relayBuf, readLog>>
watcherVars == <<watcher, watcherCode>>
eventVars == <<outEvents, exitEvents>>
workerVars == <<procVars, relayVars, watcherVars, eventVars>>
terminalVars == <<callerVars, lockVars, mgrVars, ptyVars, workerVars>>
fileVars == <<settingsFile, tempFile>>
updaterVars == <<upc, uop, utyped, uval, uresult, hnd, ubefore, started>>
settingsVars == <<fileVars, updaterVars>>
vars == <<terminalVars, settingsVars>>

\* ----------------------------------------------------------------- values
NoOp == [kind |-> "none", id |-> 0, data |-> <<>>, dims |-> <<0, 0>>]
NoResult == [status |-> "none", msg |-> "", id |-> 0]
Ok == [status |-> "ok", msg |-> "", id |-> 0]
OkId(id) == [status |-> "ok", msg |-> "", id |-> id]
Err(m) == [status |-> "err", msg |-> m, id |-> 0]
NoSnapshot == [instances |-> <<>>, registered |-> {}, stdin |-> <<>>, winsize |-> <<>>]

\* ------------------------------------------------- the settings store
Updaters == 1..NumUpdaters
\* plugin ids, a PermissionsConfig and an MCP server id the UI passes
Plugins == {"p1", "p2"}
Perms == {"x1"}
Servers == {"s1"}

\* a top-level field that is not in the object, and one that is, with its value
Absent == <<>>
Present(v) == <<v>>

\* What a file name holds. kind: "missing" (no such file), "garbage" (text
\* that is not JSON), "empty" (a file just created or truncated), "partial" (a
\* proper prefix of a serialized Value), "nonobject" (JSON that is not an
\* object), "object". An object has the three fields the program updates and
\* one, other, that it knows nothing about: enabledPlugins is the set of the
\* plugin ids mapped to true, mcpServers the set of the server ids.
Content(k, ep, perm, mcp, other) ==
    [kind |-> k, ep |-> ep, perm |-> perm, mcp |-> mcp, other |-> other]

NoFile == Content("missing", Absent, Absent, Absent, Absent)
Garbage == Content("garbage", Absent, Absent, Absent, Absent)
EmptyFile == Content("empty", Absent, Absent, Absent, Absent)
PartialFile == Content("partial", Absent, Absent, Absent, Absent)
NonObject == Content("nonobject", Absent, Absent, Absent, Absent)
\* Value::Object(serde_json::Map::new())
EmptyObject == Content("object", Absent, Absent, Absent, Absent)

NoUpdate == [kind |-> "none", arg |-> ""]

Min(a, b) == IF a <= b THEN a ELSE b

RECURSIVE SumLen(_, _)
SumLen(f, S) ==
    IF S = {} THEN 0
    ELSE LET x == CHOOSE y \in S : TRUE IN Len(f[x]) + SumLen(f, S \ {x})

RECURSIVE Flatten(_)
Flatten(ss) == IF ss = <<>> THEN <<>> ELSE Head(ss) \o Flatten(Tail(ss))

\* ids under which an instance was ever stored
Registered == {i \in Ids : inserts[i] > 0}

\* ------------------------------------------------ String::from_utf8_lossy
\* The decoder of std, as it scans: a valid sequence gives its code point, each
\* maximal invalid part gives one U+FFFD.
IsCont(b) == b >= 128 /\ b <= 191

At(s, k) == IF k <= Len(s) THEN s[k] ELSE -1

Utf8Width(b) ==
    IF b < 128 THEN 1
    ELSE IF b >= 194 /\ b <= 223 THEN 2
    ELSE IF b >= 224 /\ b <= 239 THEN 3
    ELSE IF b >= 240 /\ b <= 244 THEN 4
    ELSE 0

SecondOk3(b0, b1) ==
    \/ b0 = 224 /\ b1 >= 160 /\ b1 <= 191
    \/ b0 >= 225 /\ b0 <= 236 /\ IsCont(b1)
    \/ b0 = 237 /\ b1 >= 128 /\ b1 <= 159
    \/ b0 >= 238 /\ b0 <= 239 /\ IsCont(b1)

SecondOk4(b0, b1) ==
    \/ b0 = 240 /\ b1 >= 144 /\ b1 <= 191
    \/ b0 >= 241 /\ b0 <= 243 /\ IsCont(b1)
    \/ b0 = 244 /\ b1 >= 128 /\ b1 <= 143

\* the first item of a nonempty byte sequence: its code point (or U+FFFD) and
\* the number of bytes it takes
Utf8Step(s) ==
    LET b0 == s[1]
        b1 == At(s, 2)
        b2 == At(s, 3)
        b3 == At(s, 4)
        w == Utf8Width(b0)
        bad(n) == [cp |-> Replacement, n |-> n]
    IN  CASE w = 1 -> [cp |-> b0, n |-> 1]
          [] w = 2 -> IF IsCont(b1)
                      THEN [cp |-> (b0 - 192) * 64 + (b1 - 128), n |-> 2]
                      ELSE bad(1)
          [] w = 3 -> IF ~SecondOk3(b0, b1) THEN bad(1)
                      ELSE IF ~IsCont(b2) THEN bad(2)
                      ELSE [cp |-> (b0 - 224) * 4096 + (b1 - 128) * 64 + (b2 - 128),
                            n |-> 3]
          [] w = 4 -> IF ~SecondOk4(b0, b1) THEN bad(1)
                      ELSE IF ~IsCont(b2) THEN bad(2)
                      ELSE IF ~IsCont(b3) THEN bad(3)
                      ELSE [cp |-> (b0 - 240) * 262144 + (b1 - 128) * 4096
                                   + (b2 - 128) * 64 + (b3 - 128),
                            n |-> 4]
          [] OTHER -> bad(1)

RECURSIVE Utf8Lossy(_)
Utf8Lossy(s) ==
    IF s = <<>> THEN <<>>
    ELSE LET st == Utf8Step(s)
         IN  <<st.cp>> \o Utf8Lossy(SubSeq(s, st.n + 1, Len(s)))

\* the text of an event as the bytes a consumer gets (UTF-8 of each code point)
Utf8Encode1(cp) ==
    IF cp < 128 THEN <<cp>>
    ELSE IF cp < 2048 THEN <<192 + (cp \div 64), 128 + (cp % 64)>>
    ELSE IF cp < 65536
         THEN <<224 + (cp \div 4096), 128 + ((cp \div 64) % 64), 128 + (cp % 64)>>
    ELSE <<240 + (cp \div 262144), 128 + ((cp \div 4096) % 64),
           128 + ((cp \div 64) % 64), 128 + (cp % 64)>>

RECURSIVE Utf8Encode(_)
Utf8Encode(t) ==
    IF t = <<>> THEN <<>> ELSE Utf8Encode1(Head(t)) \o Utf8Encode(Tail(t))

\* ---------------------------------------------------------- the collection
\* HashMap::insert: the entry under id is set, replacing one that was there
Insert(m, id, inst) ==
    [k \in DOMAIN m \cup {id} |-> IF k = id THEN inst ELSE m[k]]

\* a remove that leaves the entry in place
RemoveNothing(m, id) == m

\* a remove that empties the collection
RemoveAll(m, id) == [k \in {} |-> m[k]]

\* HashMap::remove: no entry under id afterwards; no effect when there was none
Remove(m, id) == [k \in DOMAIN m \ {id} |-> m[k]]

\* PtyInstance { writer, master } of the pty opened for id
PtyInstance(id) == [writer |-> id, master |-> id]

\* a generator that gives the same id again
NewV4Repeats == CHOOSE i \in Ids : \A j \in Ids : i <= j

\* Uuid::new_v4(): an id that was never produced before
NewV4 == CHOOSE i \in Ids \ generated : \A j \in Ids \ generated : i <= j

\* ------------------------------------------------------------ initial state
\* PtyState(Mutex::new(PtyManager::new())): both locks free, the collection empty
InitTerminal ==
    /\ pc = [c \in Callers |-> "idle"]
    /\ op = [c \in Callers |-> NoOp]
    /\ result = [c \in Callers |-> NoResult]
    /\ before = [c \in Callers |-> NoSnapshot]
    /\ io = [c \in Callers |-> 0]
    /\ spawnId = [c \in Callers |-> 0]
    /\ outerLock = 0
    /\ innerLock = 0
    /\ outerPoisoned = FALSE
    /\ innerPoisoned = FALSE
    /\ instances = <<>>
    /\ generated = {}
    /\ inserts = [i \in Ids |-> 0]
    /\ proc = [i \in Ids |-> "none"]
    /\ exitCode = [i \in Ids |-> 0]
    /\ ptyOut = [i \in Ids |-> <<>>]
    /\ written = [i \in Ids |-> <<>>]
    /\ stdin = [i \in Ids |-> <<>>]
    /\ winsize = [i \in Ids |-> <<0, 0>>]
    /\ relay = [i \in Ids |-> "none"]
    /\ relayBuf = [i \in Ids |-> <<>>]
    /\ readLog = [i \in Ids |-> <<>>]
    /\ watcher = [i \in Ids |-> "none"]
    /\ watcherCode = [i \in Ids |-> 0]
    /\ outEvents = [i \in Ids |-> <<>>]
    /\ exitEvents = [i \in Ids |-> <<>>]

\* no settings update is running and there is no temporary file
InitUpdaters ==
    /\ tempFile = NoFile
    /\ upc = [u \in Updaters |-> "idle"]
    /\ uop = [u \in Updaters |-> NoUpdate]
    /\ utyped = [u \in Updaters |-> {}]
    /\ uval = [u \in Updaters |-> NoFile]
    /\ uresult = [u \in Updaters |-> NoResult]
    /\ hnd = [u \in Updaters |-> "none"]
    /\ ubefore = [u \in Updaters |-> NoFile]
    /\ started = 0

\* the program at its start, on a machine with no settings.json
Init ==
    /\ InitTerminal
    /\ InitUpdaters
    /\ settingsFile = NoFile

\* ------------------------------------------------------------ the commands
\* what the UI can invoke
Ops ==
    {[kind |-> "spawn", id |-> 0, data |-> <<>>, dims |-> d] : d \in SpawnDims}
    \cup {[kind |-> "write", id |-> i, data |-> b, dims |-> <<0, 0>>] :
            i \in Ids, b \in DataSet}
    \cup {[kind |-> "resize", id |-> i, data |-> <<>>, dims |-> d] :
            i \in Ids, d \in Dims}
    \cup {[kind |-> "kill", id |-> i, data |-> <<>>, dims |-> <<0, 0>>] : i \in Ids}

\* the method's value is r; the guards are still alive
Ret(c, r) ==
    /\ pc' = [pc EXCEPT ![c] = "ret"]
    /\ result' = [result EXCEPT ![c] = r]

Goto(c, where) ==
    /\ pc' = [pc EXCEPT ![c] = where]
    /\ UNCHANGED result

\* an end of a command that keeps the guard on the collection
LeaveKeepInner(c) ==
    /\ pc' = [pc EXCEPT ![c] = "idle"]
    /\ op' = [op EXCEPT ![c] = NoOp]
    /\ result' = [result EXCEPT ![c] = NoResult]
    /\ before' = [before EXCEPT ![c] = NoSnapshot]
    /\ io' = [io EXCEPT ![c] = 0]
    /\ spawnId' = [spawnId EXCEPT ![c] = 0]
    /\ outerLock' = IF outerLock = c THEN 0 ELSE outerLock
    /\ innerLock' = innerLock

\* the command is over for caller c, whose guards are dropped
Leave(c) ==
    /\ pc' = [pc EXCEPT ![c] = "idle"]
    /\ op' = [op EXCEPT ![c] = NoOp]
    /\ result' = [result EXCEPT ![c] = NoResult]
    /\ before' = [before EXCEPT ![c] = NoSnapshot]
    /\ io' = [io EXCEPT ![c] = 0]
    /\ spawnId' = [spawnId EXCEPT ![c] = 0]
    /\ outerLock' = IF outerLock = c THEN 0 ELSE outerLock
    /\ innerLock' = IF innerLock = c THEN 0 ELSE innerLock

\* the command returns to the UI: the guard on the collection is dropped at the
\* end of the manager's method, the one on the PtyState at the end of the command
Return(c) ==
    /\ pc[c] = "ret"
    /\ Leave(c)
    /\ UNCHANGED <<settingsVars, outerPoisoned, innerPoisoned, mgrVars, ptyVars, workerVars>>

\* a command that reports ok when it cannot take the lock
StateLockSwallow(c, o) ==
    /\ pc[c] = "idle"
    /\ outerLock = 0
    /\ op' = [op EXCEPT ![c] = o]
    /\ before' = [before EXCEPT ![c] = [instances |-> instances, registered |-> Registered,
                                        stdin |-> stdin, winsize |-> winsize]]
    /\ IF outerPoisoned
       THEN Ret(c, Ok) /\ UNCHANGED outerLock
       ELSE outerLock' = c /\ Goto(c, o.kind)
    /\ UNCHANGED <<settingsVars, io, spawnId, innerLock, outerPoisoned, innerPoisoned, mgrVars, ptyVars,
                   workerVars>>

\* a command is invoked on a thread of its own: state.0.lock().map_err(..)?
\* and the call of the manager's method
StateLock(c, o) ==
    /\ pc[c] = "idle"
    /\ outerLock = 0
    /\ op' = [op EXCEPT ![c] = o]
    /\ before' = [before EXCEPT ![c] = [instances |-> instances, registered |-> Registered,
                                        stdin |-> stdin, winsize |-> winsize]]
    /\ IF outerPoisoned
       THEN Ret(c, Err("Lock error")) /\ UNCHANGED outerLock
       ELSE outerLock' = c /\ Goto(c, o.kind)
    /\ UNCHANGED <<settingsVars, io, spawnId, innerLock, outerPoisoned, innerPoisoned, mgrVars, ptyVars,
                   workerVars>>

pty_spawn(c) ==
    /\ generated # Ids
    /\ \E o \in Ops : o.kind = "spawn" /\ StateLock(c, o)

pty_write(c) ==
    \E o \in Ops :
        /\ o.kind = "write"
        /\ SumLen(stdin, Ids) + Len(o.data) <= MaxIn
        /\ StateLock(c, o)

pty_resize(c) == \E o \in Ops : o.kind = "resize" /\ StateLock(c, o)

pty_kill(c) == \E o \in Ops : o.kind = "kill" /\ StateLock(c, o)

\* ------------------------------------------------------- PtyManager::spawn
\* openpty, spawn_command, Uuid::new_v4, try_clone_reader, each of which can
\* fail, and the two thread::spawn calls: the child runs from spawn_command on,
\* the relay owns the cloned reader, the watcher owns the child
spawn(c) ==
    /\ pc[c] = "spawn"
    /\ \/ /\ Ret(c, Err("Failed to open PTY"))
          /\ UNCHANGED <<spawnId, generated, proc, winsize, relay, watcher>>
       \/ /\ Ret(c, Err("Failed to spawn shell"))
          /\ UNCHANGED <<spawnId, generated, proc, winsize, relay, watcher>>
       \/ /\ generated # Ids
          /\ generated' = generated \cup {NewV4}
          /\ Ret(c, Err("Failed to clone reader"))
          /\ UNCHANGED <<spawnId, proc, winsize, relay, watcher>>
       \/ /\ generated # Ids
          /\ generated' = generated \cup {NewV4}
          /\ spawnId' = [spawnId EXCEPT ![c] = NewV4]
          /\ proc' = [proc EXCEPT ![NewV4] = "running"]
          /\ winsize' = [winsize EXCEPT ![NewV4] = op[c].dims]
          /\ relay' = [relay EXCEPT ![NewV4] = "read"]
          /\ watcher' = [watcher EXCEPT ![NewV4] = "wait"]
          /\ Goto(c, "take_writer")
    /\ UNCHANGED <<settingsVars, op, before, io, lockVars, instances, inserts, stdin, exitCode, ptyOut,
                   written, relayBuf, readLog, watcherCode, eventVars>>

\* a spawn that stores the instance before it takes the writer
spawn_store_early(c) ==
    /\ pc[c] = "take_writer"
    /\ innerLock = 0
    /\ instances' = Insert(instances, spawnId[c], PtyInstance(spawnId[c]))
    /\ inserts' = [inserts EXCEPT ![spawnId[c]] = @ + 1]
    /\ \/ Ret(c, Err("Failed to take writer"))
       \/ Ret(c, OkId(spawnId[c]))
    /\ UNCHANGED <<settingsVars, op, before, io, spawnId, lockVars, generated, ptyVars, workerVars>>

\* pair.master.take_writer().map_err(..)?;
\* self.instances.lock().map_err(..)?.insert(id.clone(), instance); Ok(id)
\* (the guard on the collection is a temporary of the statement)
spawn_store(c) ==
    /\ pc[c] = "take_writer"
    /\ innerLock = 0
    /\ \/ /\ Ret(c, Err("Failed to take writer"))
          /\ UNCHANGED <<instances, inserts>>
       \/ IF innerPoisoned
          THEN /\ Ret(c, Err("Lock error"))
               /\ UNCHANGED <<instances, inserts>>
          ELSE /\ instances' = Insert(instances, spawnId[c], PtyInstance(spawnId[c]))
               /\ inserts' = [inserts EXCEPT ![spawnId[c]] = @ + 1]
               /\ Ret(c, OkId(spawnId[c]))
    /\ UNCHANGED <<settingsVars, op, before, io, spawnId, lockVars, generated, ptyVars, workerVars>>

\* ------------------------------------------------------- PtyManager::write
\* a lookup that does not report a missing id
NotFoundIgnored == Ok

\* .ok_or_else(|| "PTY not found".to_string())?
NotFound == Err("PTY not found")

\* a lookup that finds only the sessions whose process is running
LockAndGetLive(c, kind, next) ==
    /\ pc[c] = kind
    /\ innerLock = 0
    /\ IF innerPoisoned
       THEN Ret(c, Err("Lock error")) /\ UNCHANGED innerLock
       ELSE /\ innerLock' = c
            /\ IF op[c].id \in DOMAIN instances /\ proc[op[c].id] = "running"
               THEN Goto(c, next)
               ELSE Ret(c, NotFound)
    /\ UNCHANGED <<settingsVars, op, before, io, spawnId, outerLock, outerPoisoned, innerPoisoned,
                   mgrVars, ptyVars, workerVars>>

\* self.instances.lock() and instances.get_mut(id) / instances.get(id): the
\* guard lives to the end of the method
LockAndGet(c, kind, next) ==
    /\ pc[c] = kind
    /\ innerLock = 0
    /\ IF innerPoisoned
       THEN Ret(c, Err("Lock error")) /\ UNCHANGED innerLock
       ELSE /\ innerLock' = c
            /\ IF op[c].id \in DOMAIN instances THEN Goto(c, next) ELSE Ret(c, NotFound)
    /\ UNCHANGED <<settingsVars, op, before, io, spawnId, outerLock, outerPoisoned, innerPoisoned,
                   mgrVars, ptyVars, workerVars>>

write(c) == LockAndGet(c, "write", "write_all")

\* a single write call, which goes on to the flush whatever part of data the OS
\* accepted
write_once(c) ==
    /\ pc[c] = "write_all"
    /\ io' = [io EXCEPT ![c] = @ + 1]
    /\ LET w == instances[op[c].id].writer
           data == op[c].data
       IN  \/ \E k \in 1..Len(data) :
                /\ stdin' = [stdin EXCEPT ![w] = @ \o SubSeq(data, 1, k)]
                /\ Goto(c, "flush")
           \/ /\ UNCHANGED stdin
              /\ Ret(c, Err("Write error"))
    /\ UNCHANGED <<settingsVars, op, before, spawnId, lockVars, mgrVars, winsize, workerVars>>

\* a write_all that sends data byte by byte and lets go of both locks while
\* it does
write_all_unlocked(c) ==
    /\ pc[c] = "write_all"
    /\ io' = [io EXCEPT ![c] = @ + 1]
    /\ outerLock' = 0
    /\ innerLock' = 0
    /\ LET w == op[c].id
           data == op[c].data
       IN  /\ stdin' = [stdin EXCEPT ![w] = Append(@, data[io[c] + 1])]
           /\ IF io[c] + 1 = Len(data) THEN Goto(c, "flush") ELSE Goto(c, "write_all")
    /\ UNCHANGED <<settingsVars, op, before, spawnId, outerPoisoned, innerPoisoned, mgrVars, winsize,
                   workerVars>>

\* instance.writer.write_all(data.as_bytes()): all of data reaches the pty's
\* input, or a proper prefix of it does and the call fails
write_all(c) ==
    /\ pc[c] = "write_all"
    /\ io' = [io EXCEPT ![c] = @ + 1]
    /\ LET w == instances[op[c].id].writer
           data == op[c].data
       IN  \/ /\ stdin' = [stdin EXCEPT ![w] = @ \o data]
              /\ Goto(c, "flush")
           \/ \E k \in 0..(Len(data) - 1) :
                /\ stdin' = [stdin EXCEPT ![w] = @ \o SubSeq(data, 1, k)]
                /\ Ret(c, Err("Write error"))
    /\ UNCHANGED <<settingsVars, op, before, spawnId, lockVars, mgrVars, winsize, workerVars>>

\* instance.writer.flush(); Ok(())
flush(c) ==
    /\ pc[c] = "flush"
    /\ io' = [io EXCEPT ![c] = @ + 1]
    /\ \/ Ret(c, Ok)
       \/ Ret(c, Err("Flush error"))
    /\ UNCHANGED <<settingsVars, op, before, spawnId, lockVars, mgrVars, ptyVars, workerVars>>

\* ------------------------------------------------------ PtyManager::resize
resize(c) == LockAndGet(c, "resize", "resize_os")

\* a resize that drops the session when the OS call fails
resize_os_drop(c) ==
    /\ pc[c] = "resize_os"
    /\ io' = [io EXCEPT ![c] = @ + 1]
    /\ \/ /\ winsize' = [winsize EXCEPT ![instances[op[c].id].master] = op[c].dims]
          /\ Ret(c, Ok)
          /\ UNCHANGED instances
       \/ /\ Ret(c, Err("Resize error"))
          /\ instances' = Remove(instances, op[c].id)
          /\ UNCHANGED winsize
    /\ UNCHANGED <<settingsVars, op, before, spawnId, lockVars, generated, inserts, stdin, workerVars>>

\* instance.master.resize(PtySize {..}); Ok(())
resize_os(c) ==
    /\ pc[c] = "resize_os"
    /\ io' = [io EXCEPT ![c] = @ + 1]
    /\ \/ /\ winsize' = [winsize EXCEPT ![instances[op[c].id].master] = op[c].dims]
          /\ Ret(c, Ok)
       \/ /\ Ret(c, Err("Resize error"))
          /\ UNCHANGED winsize
    /\ UNCHANGED <<settingsVars, op, before, spawnId, lockVars, mgrVars, stdin, workerVars>>

\* -------------------------------------------------------- PtyManager::kill
\* self.instances.lock(); instances.remove(id); Ok(())
kill(c) ==
    /\ pc[c] = "kill"
    /\ innerLock = 0
    /\ IF innerPoisoned
       THEN /\ Ret(c, Err("Lock error"))
            /\ UNCHANGED <<instances, innerLock>>
       ELSE /\ innerLock' = c
            /\ instances' = Remove(instances, op[c].id)
            /\ Ret(c, Ok)
    /\ UNCHANGED <<settingsVars, op, before, io, spawnId, outerLock, outerPoisoned, innerPoisoned,
                   generated, inserts, ptyVars, workerVars>>

\* ------------------------------------------------------------ std Mutex
\* a thread that panics inside a command unwinds through its guards: each lock
\* it holds is released poisoned, and the command returns nothing
Panic(c) ==
    /\ outerLock = c
    /\ pc[c] # "ret"
    /\ outerPoisoned' = TRUE
    /\ innerPoisoned' = (innerPoisoned \/ innerLock = c)
    /\ Leave(c)
    /\ UNCHANGED <<settingsVars, mgrVars, ptyVars, workerVars>>

\* ------------------------------------------------------ the shell process
\* the process prints a byte on its terminal
ProcWrite(i) ==
    /\ proc[i] = "running"
    /\ SumLen(written, Ids) < MaxOut
    /\ \E b \in ByteSet :
        /\ ptyOut' = [ptyOut EXCEPT ![i] = Append(@, b)]
        /\ written' = [written EXCEPT ![i] = Append(@, b)]
    /\ UNCHANGED <<settingsVars, callerVars, lockVars, mgrVars, ptyVars, proc, exitCode, relayVars,
                   watcherVars, eventVars>>

\* the process terminates
ProcExit(i) ==
    /\ proc[i] = "running"
    /\ proc' = [proc EXCEPT ![i] = "exited"]
    /\ UNCHANGED <<settingsVars, callerVars, lockVars, mgrVars, ptyVars, exitCode, ptyOut, written,
                   relayVars, watcherVars, eventVars>>

\* --------------------------------------------------------- output relay
\* a relay that tags its events with the id generated last
EmitTagShared(i) == CHOOSE j \in generated : \A k \in generated : k <= j

\* "id": id_clone / "id": id_exit, the id moved into the thread's closure
EmitTag(i) == i

\* an emit that overtakes the events emitted before it
EmitReordered(log, e) == <<e>> \o log

\* app_handle.emit(..): the events leave in the order of the calls
Emit(log, e) == Append(log, e)

\* let data = String::from_utf8_lossy(&buf[..n]).to_string();
Payload(chunk) == Utf8Lossy(chunk)

\* reader.read(&mut buf) returning Ok(n), n > 0: the next n unread bytes
RelayRead(i) ==
    /\ relay[i] = "read"
    /\ ptyOut[i] # <<>>
    /\ \E n \in 1..Min(Len(ptyOut[i]), BufSize) :
        /\ relayBuf' = [relayBuf EXCEPT ![i] = SubSeq(ptyOut[i], 1, n)]
        /\ readLog' = [readLog EXCEPT ![i] = Append(@, SubSeq(ptyOut[i], 1, n))]
        /\ ptyOut' = [ptyOut EXCEPT ![i] = SubSeq(@, n + 1, Len(@))]
    /\ relay' = [relay EXCEPT ![i] = "emit"]
    /\ UNCHANGED <<settingsVars, callerVars, lockVars, mgrVars, ptyVars, proc, exitCode, written,
                   watcherVars, eventVars>>

\* a relay that emits under the lock of the collection
RelayEmitLocked(i) ==
    /\ innerLock = 0
    /\ relay[i] = "emit"
    /\ outEvents' = [outEvents EXCEPT ![EmitTag(i)] =
                        Emit(@, [data |-> Payload(relayBuf[i]), src |-> i,
                                 seq |-> Len(readLog[i])])]
    /\ relayBuf' = [relayBuf EXCEPT ![i] = <<>>]
    /\ relay' = [relay EXCEPT ![i] = "read"]
    /\ UNCHANGED <<settingsVars, callerVars, lockVars, mgrVars, ptyVars, procVars, readLog, watcherVars,
                   exitEvents>>

\* a relay that emits a closing event after its loop has ended
RelayEmitAfterEnd(i) ==
    /\ relay[i] \in {"emit", "done"}
    /\ relay[i] = "done" => Len(outEvents[EmitTag(i)]) <= Len(readLog[i])
    /\ outEvents' = [outEvents EXCEPT ![EmitTag(i)] =
                        Emit(@, [data |-> Payload(relayBuf[i]), src |-> i,
                                 seq |-> Len(@) + 1])]
    /\ relayBuf' = [relayBuf EXCEPT ![i] = <<>>]
    /\ relay' = [relay EXCEPT ![i] = IF relay[i] = "emit" THEN "read" ELSE "done"]
    /\ UNCHANGED <<settingsVars, callerVars, lockVars, mgrVars, ptyVars, procVars, readLog, watcherVars,
                   exitEvents>>

\* Ok(n) => { .. app_handle_clone.emit("pty-output", { id: id_clone, data }) }
RelayEmit(i) ==
    /\ relay[i] = "emit"
    /\ outEvents' = [outEvents EXCEPT ![EmitTag(i)] =
                        Emit(@, [data |-> Payload(relayBuf[i]), src |-> i,
                                 seq |-> Len(readLog[i])])]
    /\ relayBuf' = [relayBuf EXCEPT ![i] = <<>>]
    /\ relay' = [relay EXCEPT ![i] = "read"]
    /\ UNCHANGED <<settingsVars, callerVars, lockVars, mgrVars, ptyVars, procVars, readLog, watcherVars,
                   exitEvents>>

\* a relay that reports the end of the output with an empty event
RelayStopEmits(i) ==
    /\ relay[i] = "read"
    /\ ptyOut[i] = <<>>
    /\ proc[i] = "exited"
    /\ relay' = [relay EXCEPT ![i] = "done"]
    /\ outEvents' = [outEvents EXCEPT ![EmitTag(i)] =
                        Emit(@, [data |-> <<>>, src |-> i, seq |-> Len(readLog[i]) + 1])]
    /\ UNCHANGED <<settingsVars, callerVars, lockVars, mgrVars, ptyVars, procVars, relayBuf, readLog,
                   watcherVars, exitEvents>>

\* Ok(0) => break, Err(_) => break: the slave side is closed and drained
RelayStop(i) ==
    /\ relay[i] = "read"
    /\ ptyOut[i] = <<>>
    /\ proc[i] = "exited"
    /\ relay' = [relay EXCEPT ![i] = "done"]
    /\ UNCHANGED <<settingsVars, callerVars, lockVars, mgrVars, ptyVars, procVars, relayBuf, readLog,
                   watcherVars, eventVars>>

\* ---------------------------------------------------------- exit watcher
\* if let Ok(status) = child.wait(): the child has terminated, and wait tells
\* the code it terminated with
WatcherWaitOk(i) ==
    /\ watcher[i] = "wait"
    /\ proc[i] = "exited"
    /\ \E code \in ExitCodes :
        /\ exitCode' = [exitCode EXCEPT ![i] = code]
        /\ watcherCode' = [watcherCode EXCEPT ![i] = code]
    /\ watcher' = [watcher EXCEPT ![i] = "emit"]
    /\ UNCHANGED <<settingsVars, callerVars, lockVars, mgrVars, ptyVars, proc, ptyOut, written,
                   relayVars, eventVars>>

\* child.wait() fails: the thread ends without an event
WatcherWaitErr(i) ==
    /\ watcher[i] = "wait"
    /\ watcher' = [watcher EXCEPT ![i] = "done"]
    /\ UNCHANGED <<settingsVars, callerVars, lockVars, mgrVars, ptyVars, procVars, relayVars,
                   watcherCode, eventVars>>

\* a watcher that emits and waits again
WatcherEmitAgain(i) ==
    /\ watcher[i] = "emit"
    /\ exitEvents' = [exitEvents EXCEPT ![EmitTag(i)] = Emit(@, watcherCode[i])]
    /\ Len(exitEvents[EmitTag(i)]) < 2
    /\ UNCHANGED <<settingsVars, callerVars, lockVars, mgrVars, ptyVars, procVars, relayVars,
                   watcherVars, outEvents>>

\* a watcher that reports the exit of a session only while it is registered
WatcherEmitIfRegistered(i) ==
    /\ watcher[i] = "emit"
    /\ exitEvents' = [exitEvents EXCEPT ![EmitTag(i)] =
                         IF i \in DOMAIN instances THEN Emit(@, watcherCode[i]) ELSE @]
    /\ watcher' = [watcher EXCEPT ![i] = "done"]
    /\ UNCHANGED <<settingsVars, callerVars, lockVars, mgrVars, ptyVars, procVars, relayVars,
                   watcherCode, outEvents>>

\* a watcher that removes its session from the collection when it reports the exit
WatcherEmitAndRemove(i) ==
    /\ watcher[i] = "emit"
    /\ exitEvents' = [exitEvents EXCEPT ![EmitTag(i)] = Emit(@, watcherCode[i])]
    /\ watcher' = [watcher EXCEPT ![i] = "done"]
    /\ instances' = Remove(instances, i)
    /\ UNCHANGED <<settingsVars, callerVars, lockVars, generated, inserts, ptyVars, procVars, relayVars,
                   watcherCode, outEvents>>

\* app_handle_exit.emit("pty-exit", { id: id_exit, code }) and the thread ends
WatcherEmit(i) ==
    /\ watcher[i] = "emit"
    /\ exitEvents' = [exitEvents EXCEPT ![EmitTag(i)] = Emit(@, watcherCode[i])]
    /\ watcher' = [watcher EXCEPT ![i] = "done"]
    /\ UNCHANGED <<settingsVars, callerVars, lockVars, mgrVars, ptyVars, procVars, relayVars,
                   watcherCode, outEvents>>

\* ------------------------------------------------------- specifications
CallerStep(c) ==
    \/ pty_spawn(c)
    \/ pty_write(c)
    \/ pty_resize(c)
    \/ pty_kill(c)
    \/ spawn(c)
    \/ spawn_store(c)
    \/ write(c)
    \/ write_all(c)
    \/ flush(c)
    \/ resize(c)
    \/ resize_os(c)
    \/ kill(c)
    \/ Return(c)

ProcStep(i) == ProcWrite(i) \/ ProcExit(i)

RelayStep(i) == RelayRead(i) \/ RelayEmit(i) \/ RelayStop(i)

WatcherStep(i) == WatcherWaitOk(i) \/ WatcherWaitErr(i) \/ WatcherEmit(i)

\* the whole program: callers, processes, relays and watchers
Next ==
    \/ \E c \in Callers : CallerStep(c)
    \/ \E i \in Ids : ProcStep(i) \/ RelayStep(i) \/ WatcherStep(i)

Spec == Init /\ [][Next]_vars

\* The terminal and the settings store share no state: no step of one reads or
\* writes a variable of the other.
\* The commands read and write callerVars, lockVars, mgrVars and ptyVars; the
\* processes, relays and watchers read and write workerVars only, which spawn
\* initialises for a new id and no command reads. Each family of properties is
\* checked under the specification of the steps that touch its variables.

\* the commands: no process, relay or watcher takes a step
NextCmd == \E c \in Callers : CallerStep(c)

SpecCmd == Init /\ [][NextCmd]_vars

\* the commands, with threads that panic inside them
NextPoison == \E c \in Callers : CallerStep(c) \/ Panic(c)

SpecPoison == Init /\ [][NextPoison]_vars

\* the steps of a spawn and of a kill
SpawnStep(c) == pty_spawn(c) \/ spawn(c) \/ spawn_store(c) \/ Return(c)

KillStep(c) == pty_kill(c) \/ kill(c)

\* spawn and kill, the two commands that change the collection, with threads
\* that panic inside them
NextSpawnPoison == \E c \in Callers : SpawnStep(c) \/ KillStep(c) \/ Panic(c)

SpecSpawnPoison == Init /\ [][NextSpawnPoison]_vars

\* spawn and kill, the processes and their exit watchers
NextExit ==
    \/ \E c \in Callers : SpawnStep(c) \/ KillStep(c)
    \/ \E i \in Ids : ProcExit(i) \/ WatcherStep(i)

SpecExit == Init /\ [][NextExit]_vars

\* the same, each watcher being a thread the OS schedules
SpecExitFair ==
    /\ SpecExit
    /\ \A i \in Ids : WF_vars(WatcherEmit(i))

\* spawn, the processes and their output relays
NextRelay ==
    \/ \E c \in Callers : SpawnStep(c)
    \/ \E i \in Ids : ProcStep(i) \/ RelayStep(i)

SpecRelay == Init /\ [][NextRelay]_vars

\* ------------------------------------------------------------- properties
AtRet(c, kind) == pc[c] = "ret" /\ op[c].kind = kind

\* the collection is what it was at the invocation, without the entry of id
SameWithout(c, id) ==
    /\ DOMAIN instances = DOMAIN before[c].instances \ {id}
    /\ \A k \in DOMAIN instances : instances[k] = before[c].instances[k]

\* C1: kill(id) returns ok and leaves id absent from the collection whatever the
\* collection holds, removing nothing else; on an id that is already absent (a
\* second kill) it returns ok too and the collection is as it was.
C1_KillIdempotent ==
    \A c \in Callers :
        AtRet(c, "kill") =>
            /\ result[c] = Ok
            /\ op[c].id \notin DOMAIN instances
            /\ SameWithout(c, op[c].id)
            /\ op[c].id \notin DOMAIN before[c].instances
                  => instances = before[c].instances

\* a kill is returning for an id that was registered and had been killed before
C1_Witness ==
    \E c \in Callers :
        /\ AtRet(c, "kill")
        /\ op[c].id \in Registered
        /\ op[c].id \notin DOMAIN before[c].instances

\* C2: on an id that is not in the collection, write and resize return "PTY not
\* found" and kill returns ok; none of them makes an OS call on a session's
\* handles, and the collection, the ptys' input and their sizes are unchanged.
C2_UnknownId ==
    \A c \in Callers :
        (/\ pc[c] = "ret"
         /\ op[c].kind \in {"write", "resize", "kill"}
         /\ op[c].id \notin DOMAIN before[c].instances) =>
            /\ op[c].kind \in {"write", "resize"} => result[c] = Err("PTY not found")
            /\ op[c].kind = "kill" => result[c] = Ok
            /\ io[c] = 0
            /\ instances = before[c].instances
            /\ stdin = before[c].stdin
            /\ winsize = before[c].winsize

\* a write is returning for an id that was killed, while another session is
\* registered
C2_Witness ==
    \E c \in Callers :
        /\ AtRet(c, "write")
        /\ op[c].id \in Registered
        /\ op[c].id \notin DOMAIN before[c].instances
        /\ before[c].instances # <<>>

\* C3: a spawn that returns an error, whichever step failed, leaves the
\* collection as it was at the invocation: no instance is stored.
C3_FailedSpawnStoresNothing ==
    \A c \in Callers :
        (AtRet(c, "spawn") /\ result[c].status = "err") =>
            /\ instances = before[c].instances
            /\ Registered = before[c].registered

\* a spawn is failing at its last fallible step before the store, with another
\* session registered
C3_Witness ==
    \E c \in Callers :
        /\ AtRet(c, "spawn")
        /\ result[c] = Err("Failed to take writer")
        /\ before[c].instances # <<>>

\* a spawn is failing on the poisoned PtyState lock
C3_WitnessLock ==
    \E c \in Callers : AtRet(c, "spawn") /\ result[c] = Err("Lock error")

\* C4: a successful spawn returns an id no earlier spawn returned (killed or
\* not) and no running spawn holds; storing its instance replaces no entry of
\* the collection, and no id ever has a second instance stored under it.
C4_FreshId ==
    /\ \A i \in Ids : inserts[i] <= 1
    /\ \A c, d \in Callers : (c # d /\ spawnId[c] # 0) => spawnId[c] # spawnId[d]
    /\ \A c \in Callers :
        (AtRet(c, "spawn") /\ result[c].status = "ok") =>
            /\ result[c].id \notin before[c].registered
            /\ DOMAIN instances = DOMAIN before[c].instances \cup {result[c].id}
            /\ \A k \in DOMAIN before[c].instances : instances[k] = before[c].instances[k]

\* a spawn is returning its id after an earlier session was spawned and killed
C4_Witness ==
    \E c \in Callers :
        /\ AtRet(c, "spawn")
        /\ result[c].status = "ok"
        /\ before[c].registered \ DOMAIN before[c].instances # {}

\* C10: no caller holds a manager lock while it executes the OS write, the
\* flush or the OS resize on a session's handles.
C10_NoLockAcrossIo ==
    \A c \in Callers :
        pc[c] \in {"write_all", "flush", "resize_os"} => (outerLock # c /\ innerLock # c)

\* the text of the output events tagged i, joined in the order of emission
Payloads(i) == Flatten([k \in 1..Len(outEvents[i]) |-> outEvents[i][k].data])

\* C5: at most one exit event is ever emitted with a given id, whether the
\* session was killed or not and whether the wait succeeded or failed.
C5_AtMostOneExit == \A i \in Ids : Len(exitEvents[i]) <= 1

\* the exit event of a session that was registered and killed has been emitted
C5_Witness ==
    \E i \in Ids :
        /\ Len(exitEvents[i]) = 1
        /\ watcher[i] = "done"
        /\ i \in Registered
        /\ i \notin DOMAIN instances

\* C6: once the wait of a session's watcher has yielded the status of the
\* terminated process, exactly one exit event with the session's id and that
\* code is eventually emitted, killed or not; none is emitted before the process
\* has terminated, none with another code and never a second one.
C6_ExitDelivered ==
    /\ [](\A i \in Ids :
            /\ Len(exitEvents[i]) <= 1
            /\ exitEvents[i] # <<>> =>
                  (proc[i] = "exited" /\ exitEvents[i] = <<exitCode[i]>>))
    /\ \A i \in Ids : (watcher[i] = "emit") ~> (exitEvents[i] = <<exitCode[i]>>)

\* a registered session's process has ended with code 1 and its exit event is out
C6_Witness ==
    \E i \in Ids :
        /\ exitEvents[i] = <<1>>
        /\ proc[i] = "exited"
        /\ i \in DOMAIN instances

\* C7: the output events of a session are emitted in the order its relay read
\* their chunks: the k-th event carries the k-th chunk read.
C7_OutputInReadOrder ==
    \A i \in Ids :
        /\ Len(outEvents[i]) <= Len(readLog[i])
        /\ \A k \in 1..Len(outEvents[i]) : outEvents[i][k].seq = k

\* two chunks of one session were read and emitted
C7_Witness == \E i \in Ids : Len(outEvents[i]) >= 2

\* C8: when the process has written S and exited and the relay has ended, the
\* payloads of the session's output events, joined in the order of emission,
\* are exactly S, however the reads split S into chunks.
C8_PayloadsEqualWritten ==
    \A i \in Ids : relay[i] = "done" => Utf8Encode(Payloads(i)) = written[i]

\* the process wrote one two-byte character, the relay read it in two reads and
\* has ended, and the payloads are two replacement characters
C8_Witness ==
    \E i \in Ids :
        /\ relay[i] = "done"
        /\ written[i] = <<195, 169>>
        /\ readLog[i] = <<(<<195>>), (<<169>>)>>
        /\ Payloads(i) = <<Replacement, Replacement>>

\* C9: the ids of the spawned sessions are pairwise distinct, and every output
\* event tagged with an id carries a chunk read from the pty of the session of
\* that id, never one of another session.
C9_NoCrossSessionLeak ==
    /\ \A i \in Ids : inserts[i] <= 1
    /\ \A c \in Callers :
        (AtRet(c, "spawn") /\ result[c].status = "ok") =>
            result[c].id \notin before[c].registered
    /\ \A i \in Ids :
        \A k \in 1..Len(outEvents[i]) :
            /\ outEvents[i][k].src = i
            /\ outEvents[i][k].seq <= Len(readLog[i])
            /\ outEvents[i][k].data = Utf8Lossy(readLog[i][outEvents[i][k].seq])

\* two sessions are registered and each has an output event, of different bytes
C9_Witness ==
    \E i, j \in DOMAIN instances :
        /\ i # j
        /\ outEvents[i] # <<>>
        /\ outEvents[j] # <<>>
        /\ written[i] # written[j]


\* C11: while a caller is inside the OS write or the flush of a write on one
\* session, any other caller that wants to run a command (a kill, say, on
\* another session or on the same one) can acquire the lock and go ahead.
C11_OthersNotBlocked ==
    \A c, d \in Callers :
        (c # d /\ pc[c] \in {"write_all", "flush"} /\ pc[d] = "idle") =>
            ENABLED pty_kill(d)

\* a write on one session is inside write_all while another session is
\* registered and the other caller is idle
C11_Witness ==
    \E c, d \in Callers :
        /\ c # d
        /\ pc[c] = "write_all"
        /\ pc[d] = "idle"
        /\ DOMAIN instances \ {op[c].id} # {}


\* spawn and kill, the processes, the end of their relays and their watchers
NextKill ==
    \/ \E c \in Callers : SpawnStep(c) \/ KillStep(c)
    \/ \E i \in Ids : ProcExit(i) \/ RelayStop(i) \/ WatcherStep(i)

SpecKill == Init /\ [][NextKill]_vars

\* the same, a command that was invoked, the relays and the watchers being
\* threads the OS schedules; kill sends the process no signal, so nothing makes
\* the process end
SpecKillFair ==
    /\ SpecKill
    /\ \A c \in Callers : WF_vars(spawn(c) \/ spawn_store(c) \/ kill(c) \/ Return(c))
    /\ \A i \in Ids :
        /\ WF_vars(RelayStop(i))
        /\ WF_vars(WatcherWaitOk(i))
        /\ WF_vars(WatcherEmit(i))

\* the session of id i was registered and has been removed: its PtyInstance,
\* the owner of the writer and of the master, has been dropped
Killed(i) == i \in Registered /\ i \notin DOMAIN instances

\* C12: once kill(id) has removed a registered session, and so released its
\* writer and its master, the session's relay eventually ends and its watcher
\* eventually ends, with no further call.
C12_WorkersEndAfterKill ==
    \A i \in Ids : [](Killed(i) => <>(relay[i] = "done" /\ watcher[i] = "done"))

\* a kill has returned for a registered session whose process is running, whose
\* relay is in its read and whose watcher is in its wait
C12_Witness ==
    \E i \in Ids :
        /\ Killed(i)
        /\ \A c \in Callers : pc[c] = "idle"
        /\ proc[i] = "running"
        /\ relay[i] = "read"
        /\ watcher[i] = "wait"


\* C13: an id leaves the collection only in the step of a kill of that id; the
\* exit of the process, the end of the relay or of the watcher and the emission
\* of the exit event remove nothing.
C13_OnlyKillRemoves ==
    [][\A i \in Ids :
          (i \in DOMAIN instances /\ i \notin DOMAIN instances') =>
              \E c \in Callers : pc[c] = "kill" /\ op[c].id = i /\ pc'[c] = "ret"]_vars

\* the process of a registered session has exited, its relay and its watcher
\* have ended, its exit event is out, no command is running and the id is still
\* in the collection
C13_Witness ==
    \E i \in DOMAIN instances :
        /\ proc[i] = "exited"
        /\ relay[i] = "done"
        /\ watcher[i] = "done"
        /\ exitEvents[i] # <<>>
        /\ \A c \in Callers : pc[c] = "idle"


\* the commands and the processes' exits
NextCmdExit ==
    \/ \E c \in Callers : CallerStep(c)
    \/ \E i \in Ids : ProcExit(i)

SpecCmdExit == Init /\ [][NextCmdExit]_vars

\* C14: on a registered id whose process has exited, a write or a resize never
\* returns "PTY not found"; when its OS call fails it returns "Write error",
\* "Flush error" or "Resize error"; either way the id stays registered with its
\* instance; and a kill of that id returns ok and removes it.
C14_ExitedNotKilled ==
    \A c \in Callers :
        (/\ pc[c] = "ret"
         /\ op[c].id \in DOMAIN before[c].instances
         /\ proc[op[c].id] = "exited") =>
            /\ op[c].kind \in {"write", "resize"} =>
                /\ result[c] # NotFound
                /\ result[c] # Ok =>
                      result[c] \in IF op[c].kind = "write"
                                    THEN {Err("Write error"), Err("Flush error")}
                                    ELSE {Err("Resize error")}
                /\ instances = before[c].instances
            /\ op[c].kind = "kill" =>
                /\ result[c] = Ok
                /\ SameWithout(c, op[c].id)

\* a write on a registered session is returning "Write error" after the
\* session's process has exited
C14_Witness ==
    \E c \in Callers :
        /\ AtRet(c, "write")
        /\ proc[op[c].id] = "exited"
        /\ result[c] = Err("Write error")
        /\ op[c].id \in DOMAIN instances

\* a resize on a registered session is returning "Resize error" after the
\* session's process has exited
C14_WitnessResize ==
    \E c \in Callers :
        /\ AtRet(c, "resize")
        /\ proc[op[c].id] = "exited"
        /\ result[c] = Err("Resize error")
        /\ op[c].id \in DOMAIN instances


\* caller c takes a step inside PtyManager::write or PtyManager::resize
InWriteOrResize(c) ==
    /\ pc[c] \in {"write", "write_all", "flush", "resize", "resize_os"}
    /\ pc'[c] # pc[c]

\* C15: no step of a write or of a resize, succeeding or failing, changes the
\* collection, the ids registered or generated, or the state of a relay, of a
\* watcher or of a process; when the call returns, the collection holds the
\* same ids with the same writer and master as when it was invoked.
C15_WriteResizeFrame ==
    /\ [][\A c \in Callers :
            InWriteOrResize(c) =>
                UNCHANGED <<instances, generated, inserts, proc, relay, watcher>>]_vars
    /\ [](\A c \in Callers :
            (pc[c] = "ret" /\ op[c].kind \in {"write", "resize"}) =>
                /\ instances = before[c].instances
                /\ Registered = before[c].registered)

\* a resize of a registered session is returning ok, having changed the size of
\* its pty, while another session is registered
C15_Witness ==
    \E c \in Callers :
        /\ AtRet(c, "resize")
        /\ result[c] = Ok
        /\ winsize[op[c].id] # before[c].winsize[op[c].id]
        /\ DOMAIN instances \ {op[c].id} # {}


\* C16: a write that returns ok has made both OS calls, the write and the
\* flush, and the input of the session's pty is what it was at the invocation
\* followed by every byte of data, in order; the input of no other pty changed.
\* A write that reached the pty with less than all of data does not return ok.
C16_WriteAllOrError ==
    \A c \in Callers :
        (AtRet(c, "write") /\ op[c].id \in DOMAIN before[c].instances) =>
            LET w == before[c].instances[op[c].id].writer
            IN  /\ result[c] = Ok =>
                    /\ io[c] = 2
                    /\ stdin[w] = before[c].stdin[w] \o op[c].data
                /\ stdin[w] # before[c].stdin[w] \o op[c].data => result[c].status = "err"
                /\ \A i \in Ids \ {w} : stdin[i] = before[c].stdin[i]

\* a write is returning ok on a session that had input before
C16_Witness ==
    \E c \in Callers :
        /\ AtRet(c, "write")
        /\ result[c] = Ok
        /\ op[c].id \in DOMAIN instances
        /\ before[c].stdin[op[c].id] # <<>>

\* a write is returning "Write error" after one byte of two reached the pty
C16_WitnessPartial ==
    \E c \in Callers :
        /\ AtRet(c, "write")
        /\ result[c] = Err("Write error")
        /\ Len(stdin[op[c].id]) = Len(before[c].stdin[op[c].id]) + 1


\* C17: a command invoked while a manager lock is poisoned returns "Lock
\* error", not ok; a command that returns "Lock error" has changed neither the
\* collection nor any pty, has made no OS call on a session's handles and is
\* not holding the lock it failed to take; and a kill that returns ok has left
\* its id absent.
C17_LockErrorSurfaced ==
    \A c \in Callers :
        pc[c] = "ret" =>
            /\ outerPoisoned => result[c] = Err("Lock error")
            /\ result[c] = Err("Lock error") =>
                /\ instances = before[c].instances
                /\ Registered = before[c].registered
                /\ stdin = before[c].stdin
                /\ io[c] = 0
                /\ innerLock # c
                /\ outerPoisoned => outerLock # c
            /\ (op[c].kind = "kill" /\ result[c] = Ok) => op[c].id \notin DOMAIN instances

\* a kill of a registered session is returning "Lock error" and the session is
\* still in the collection
C17_Witness ==
    \E c \in Callers :
        /\ AtRet(c, "kill")
        /\ result[c] = Err("Lock error")
        /\ op[c].id \in DOMAIN instances

\* a write on a registered session is returning "Lock error"
C17_WitnessWrite ==
    \E c \in Callers :
        /\ AtRet(c, "write")
        /\ result[c] = Err("Lock error")
        /\ op[c].id \in DOMAIN instances


\* ======================================================== the settings store
\* the top-level fields of settings.json the model tells apart
Fields == {"ep", "perm", "mcp", "other"}

\* what settings.json can hold when the program starts: no file, text that is
\* not JSON, JSON that is not an object, or an object: an empty one, one with
\* the three fields the program updates, and either with a field the program
\* knows nothing of
InitialContents ==
    {NoFile, Garbage, NonObject}
    \cup {Content("object", Absent, Absent, Absent, other) :
            other \in {Absent, Present("o1")}}
    \cup {Content("object", Present({"p1"}), Present("x0"), Present({"s0"}), other) :
            other \in {Absent, Present("o1")}}

\* the program at its start, on a machine whose settings.json holds any of
\* these contents
InitSettings ==
    /\ InitTerminal
    /\ InitUpdaters
    /\ settingsFile \in InitialContents

\* serde_json::from_str succeeds on the text
Parses(content) == content.kind \in {"object", "nonobject"}

\* serde_json::to_string_pretty(&settings): the text of a Value, which parses
\* back to that Value
ToStringPretty(value) == value

\* read_settings(): the file read and parsed into ClaudeSettings, or the
\* default when the read or the parse fails (.ok(), unwrap_or_default)
read_settings(content, readOk) ==
    IF readOk /\ content.kind = "object" /\ content.ep # Absent
    THEN content.ep[1]
    ELSE {}

\* read_settings_raw(): the file read and parsed into a Value, or an empty
\* object when the read or the parse fails (.ok(), unwrap_or_else)
read_settings_raw(content, readOk) ==
    IF readOk /\ Parses(content) THEN content ELSE EmptyObject

\* if let Value::Object(ref mut map) = settings { map.insert(field, value); }
InsertField(value, field, v) ==
    IF value.kind = "object" THEN [value EXCEPT ![field] = Present(v)] ELSE value

\* the top-level field an update is about
OwnField(kind) ==
    CASE kind \in {"enable", "disable"} -> "ep"
      [] kind = "permissions" -> "perm"
      [] OTHER -> "mcp"

\* the update's value is r
URet(u, r) ==
    /\ upc' = [upc EXCEPT ![u] = "ret"]
    /\ uresult' = [uresult EXCEPT ![u] = r]

UGoto(u, where) ==
    /\ upc' = [upc EXCEPT ![u] = where]
    /\ UNCHANGED uresult

\* set_permissions, install_mcp_server and remove_mcp_server are plain
\* functions, which the framework runs one at a time on the main thread;
\* equip_item and unequip_item are async and run on the runtime's threads
SyncKinds == {"permissions", "install", "remove"}

MainThreadBusy == \E v \in Updaters : upc[v] # "idle" /\ uop[v].kind \in SyncKinds

\* an update is invoked on thread u
UInvoke(u, o) ==
    /\ upc[u] = "idle"
    /\ o.kind \in SyncKinds => ~MainThreadBusy
    /\ started < MaxUpdates
    /\ started' = started + 1
    /\ uop' = [uop EXCEPT ![u] = o]
    /\ ubefore' = [ubefore EXCEPT ![u] = settingsFile]


\* a file two fs::write calls wrote into at once: the longer text's tail after
\* the shorter text
MixedFile == Content("mixed", Absent, Absent, Absent, Absent)

\* ------------------------------------------------- the updates, step by step
\* enable_plugin(plugin_id): read the typed settings, insert the plugin
enable_plugin(u) ==
    \E p \in Plugins, readOk \in BOOLEAN :
        /\ UInvoke(u, [kind |-> "enable", arg |-> p])
        /\ utyped' = [utyped EXCEPT ![u] = read_settings(settingsFile, readOk) \cup {p}]
        /\ UGoto(u, "update_enabled_plugins")
        /\ UNCHANGED <<terminalVars, fileVars, uval, hnd>>

\* disable_plugin(plugin_id): read the typed settings, remove the plugin
disable_plugin(u) ==
    \E p \in Plugins, readOk \in BOOLEAN :
        /\ UInvoke(u, [kind |-> "disable", arg |-> p])
        /\ utyped' = [utyped EXCEPT ![u] = read_settings(settingsFile, readOk) \ {p}]
        /\ UGoto(u, "update_enabled_plugins")
        /\ UNCHANGED <<terminalVars, fileVars, uval, hnd>>

\* update_enabled_plugins up to the serialized content: create_dir_all, the
\* raw read, the insert of "enabledPlugins" when the value is an object
update_enabled_plugins(u) ==
    /\ upc[u] = "update_enabled_plugins"
    /\ \E dirOk, readOk \in BOOLEAN :
        IF dirOk
        THEN /\ uval' = [uval EXCEPT ![u] =
                    InsertField(read_settings_raw(settingsFile, readOk), "ep", utyped[u])]
             /\ UGoto(u, "create")
        ELSE /\ URet(u, Err("create_dir_all"))
             /\ UNCHANGED uval
    /\ UNCHANGED <<terminalVars, fileVars, uop, utyped, hnd, ubefore, started>>

\* write_permissions up to the serialized content
write_permissions(u) ==
    \E x \in Perms, dirOk, readOk \in BOOLEAN :
        /\ UInvoke(u, [kind |-> "permissions", arg |-> x])
        /\ IF dirOk
           THEN /\ uval' = [uval EXCEPT ![u] =
                       InsertField(read_settings_raw(settingsFile, readOk), "perm", x)]
                /\ UGoto(u, "create")
           ELSE /\ URet(u, Err("create_dir_all"))
                /\ UNCHANGED uval
        /\ UNCHANGED <<terminalVars, fileVars, utyped, hnd>>

\* the ids under "mcpServers", none when the field is missing
McpServers(value) == IF value.mcp = Absent THEN {} ELSE value.mcp[1]

\* install_mcp_server up to the serialized content: "mcpServers" is created
\* when missing, and a value that is not an object is an error
install_mcp_server(u) ==
    \E sv \in Servers, readOk \in BOOLEAN :
        LET settings == read_settings_raw(settingsFile, readOk) IN
        /\ UInvoke(u, [kind |-> "install", arg |-> sv])
        /\ IF settings.kind = "object"
           THEN /\ uval' = [uval EXCEPT ![u] =
                       [settings EXCEPT !.mcp = Present(McpServers(settings) \cup {sv})]]
                /\ UGoto(u, "create")
           ELSE /\ URet(u, Err("Settings is not an object"))
                /\ UNCHANGED uval
        /\ UNCHANGED <<terminalVars, fileVars, utyped, hnd>>

\* remove_mcp_server up to the serialized content: the server is removed when
\* the value is an object that has "mcpServers"
remove_mcp_server(u) ==
    \E sv \in Servers, readOk \in BOOLEAN :
        LET settings == read_settings_raw(settingsFile, readOk) IN
        /\ UInvoke(u, [kind |-> "remove", arg |-> sv])
        /\ uval' = [uval EXCEPT ![u] =
                IF settings.kind = "object" /\ settings.mcp # Absent
                THEN [settings EXCEPT !.mcp = Present(McpServers(settings) \ {sv})]
                ELSE settings]
        /\ UGoto(u, "create")
        /\ UNCHANGED <<terminalVars, fileVars, utyped, hnd>>

\* fs::write(&temp_path, content), its first half: File::create opens
\* settings.json.tmp, the one temporary path of every update, creating it or
\* truncating the file that is there
fs_write_create(u) ==
    /\ upc[u] = "create"
    /\ \E ok \in BOOLEAN :
        IF ok
        THEN /\ tempFile' = EmptyFile
             /\ hnd' = [hnd EXCEPT ![u] = "temp"]
             /\ UGoto(u, "write")
        ELSE /\ URet(u, Err("create"))
             /\ UNCHANGED <<tempFile, hnd>>
    /\ UNCHANGED <<terminalVars, settingsFile, uop, utyped, uval, ubefore, started>>

\* the file the handle of u is open on
Target(u) ==
    CASE hnd[u] = "temp" -> tempFile
      [] hnd[u] = "settings" -> settingsFile
      [] OTHER -> NoFile

\* fs::write, its second half: write_all(content) through the open handle,
\* from offset 0, into whatever file the handle is on by now; the handle is
\* then closed.  A failed write leaves a part of the text
fs_write_data(u) ==
    /\ upc[u] = "write"
    /\ \E ok \in BOOLEAN, mixed \in BOOLEAN :
        LET newText ==
                IF ~ok THEN PartialFile
                ELSE IF mixed /\ Target(u).kind # "empty" THEN MixedFile
                ELSE ToStringPretty(uval[u])
        IN  /\ mixed => Target(u).kind # "empty"
            /\ tempFile' = IF hnd[u] = "temp" THEN newText ELSE tempFile
            /\ settingsFile' = IF hnd[u] = "settings" THEN newText ELSE settingsFile
            /\ IF ok THEN UGoto(u, "rename") ELSE URet(u, Err("write"))
    /\ hnd' = [hnd EXCEPT ![u] = "none"]
    /\ UNCHANGED <<terminalVars, uop, utyped, uval, ubefore, started>>

\* fs::rename(&temp_path, &path): settings.json becomes the file that is at
\* the temporary path now, and the handles open on it follow it
fs_rename(u) ==
    /\ upc[u] = "rename"
    /\ \E ok \in BOOLEAN :
        IF ok /\ tempFile # NoFile
        THEN /\ settingsFile' = tempFile
             /\ tempFile' = NoFile
             /\ hnd' = [v \in Updaters |->
                    CASE hnd[v] = "temp" -> "settings"
                      [] hnd[v] = "settings" -> "gone"
                      [] OTHER -> hnd[v]]
             /\ URet(u, Ok)
        ELSE /\ URet(u, Err("rename"))
             /\ UNCHANGED <<fileVars, hnd>>
    /\ UNCHANGED <<terminalVars, uop, utyped, uval, ubefore, started>>

\* the command's value reaches the UI
UpdateReturn(u) ==
    /\ upc[u] = "ret"
    /\ upc' = [upc EXCEPT ![u] = "idle"]
    /\ UNCHANGED <<terminalVars, fileVars, uop, utyped, uval, uresult, hnd, ubefore, started>>

\* the settings store alone: NumUpdaters threads run MaxUpdates updates
NextSettings ==
    \E u \in Updaters :
        \/ enable_plugin(u)
        \/ disable_plugin(u)
        \/ update_enabled_plugins(u)
        \/ write_permissions(u)
        \/ install_mcp_server(u)
        \/ remove_mcp_server(u)
        \/ fs_write_create(u)
        \/ fs_write_data(u)
        \/ fs_rename(u)
        \/ UpdateReturn(u)

SpecSettings == InitSettings /\ [][NextSettings]_vars


\* ---------------------------------------------------------------------- C18
\* C18: an update replaces only its own top-level field: when the rename of an
\* update succeeds over a settings.json that holds a JSON object, the file
\* holds an object afterwards and every other top-level field has the value it
\* had just before
C18_OtherFieldsKept ==
    [][\A u \in Updaters :
          (/\ upc[u] = "rename"
           /\ upc'[u] = "ret"
           /\ uresult'[u] = Ok
           /\ settingsFile.kind = "object")
          => /\ settingsFile'.kind = "object"
             /\ \A f \in Fields \ {OwnField(uop[u].kind)} :
                    settingsFile'[f] = settingsFile[f]]_vars

\* an update of the permissions succeeded over an object with an unknown
\* field, and the field is still there
C18_Witness ==
    \E u \in Updaters :
        /\ uop[u].kind = "permissions"
        /\ uresult[u] = Ok
        /\ ubefore[u].kind = "object"
        /\ ubefore[u].other = Present("o1")
        /\ settingsFile.kind = "object"
        /\ settingsFile.perm = Present(uop[u].arg)
        /\ settingsFile.other = Present("o1")

\* ---------------------------------------------------------------------- C19
\* C19: at every point of every update, failed ones included, settings.json
\* holds a complete content: never an empty file, a part of a text, or two
\* texts mixed
C19_SettingsComplete == settingsFile.kind \notin {"empty", "partial", "mixed"}

\* an update failed in the middle of writing the temporary file, and
\* settings.json still holds what it held before
C19_Witness ==
    \E u \in Updaters :
        /\ uresult[u] = Err("write")
        /\ tempFile = PartialFile
        /\ ubefore[u].kind = "object"
        /\ settingsFile = ubefore[u]


\* ---------------------------------------------------------------------- C20
\* C20: an event tagged with an id is emitted only once an instance was stored
\* in the collection under that id, so the id of an event is one that write
\* and resize find unless it was killed
C20_EventsAfterInsert ==
    \A i \in Ids : (outEvents[i] # <<>> \/ exitEvents[i] # <<>>) => i \in Registered

\* an output event of a stored session was emitted
C20_Witness == \E i \in DOMAIN instances : outEvents[i] # <<>>


\* ---------------------------------------------------------------------- C21
\* spawn and kill with the processes and both workers of every session: kill
\* holds the lock of the collection from its removal to its return
NextWork ==
    \/ \E c \in Callers : SpawnStep(c) \/ KillStep(c)
    \/ \E i \in Ids : ProcStep(i) \/ RelayStep(i) \/ WatcherStep(i)

SpecWork == Init /\ [][NextWork]_vars

\* a step of a worker thread: no command moves
WorkerMoves == pc' = pc /\ workerVars' # workerVars

\* the handle of reader i is read by relay i only, the child i is waited for
\* by watcher i only
OwnHandles ==
    /\ \A i \in Ids : readLog'[i] # readLog[i] => relay[i] = "read" /\ relay'[i] = "emit"
    /\ \A i \in Ids : watcherCode'[i] # watcherCode[i] => watcher[i] = "wait" /\ watcher'[i] = "emit"

\* C21: a step of a relay or a watcher leaves both locks and the collection as
\* they are, a reader is read by its own relay and a child waited for by its
\* own watcher only, and a worker that has an event to emit can emit it
\* whichever caller holds the locks
C21_WorkersLockFree ==
    /\ [][(WorkerMoves => UNCHANGED <<lockVars, mgrVars, callerVars>>) /\ OwnHandles]_vars
    /\ [](\A i \in Ids :
            /\ relay[i] = "emit" => ENABLED RelayEmit(i)
            /\ watcher[i] = "emit" => ENABLED WatcherEmit(i)
            /\ (relay[i] = "read" /\ ptyOut[i] # <<>>) => ENABLED RelayRead(i)
            /\ (watcher[i] = "wait" /\ proc[i] = "exited") => ENABLED WatcherWaitOk(i))

\* a relay has an event to emit while a caller holds both locks
C21_Witness ==
    \E i \in Ids, c \in Callers :
        /\ relay[i] = "emit"
        /\ outerLock = c
        /\ innerLock = c
        /\ outEvents[i] # <<>>


\* ---------------------------------------------------------------------- C22
\* relays and watchers ever started: thread::spawn is called once per id, and
\* a started thread is never "none" again
RelaysStarted == {i \in Ids : relay[i] # "none"}

WatchersStarted == {i \in Ids : watcher[i] # "none"}

\* C22: every registered session has its relay and its watcher, a worker is
\* started by a spawn call only, and whenever no spawn is under way the
\* workers ever started are twice the sessions ever registered
C22_TwoWorkersPerSession ==
    /\ [][\A i \in Ids :
            (i \in RelaysStarted' \ RelaysStarted \/ i \in WatchersStarted' \ WatchersStarted)
            => \E c \in Callers : pc[c] = "spawn" /\ spawnId'[c] = i]_vars
    /\ [](/\ Registered \subseteq RelaysStarted \cap WatchersStarted
          /\ (\A c \in Callers : pc[c] \notin {"spawn", "take_writer"})
                => Cardinality(RelaysStarted) + Cardinality(WatchersStarted)
                      = 2 * Cardinality(Registered))

\* a spawn returned the id of a registered session that has its two workers,
\* and a write has run since
C22_Witness ==
    \E i \in DOMAIN instances :
        /\ i \in RelaysStarted \cap WatchersStarted
        /\ \E c \in Callers : AtRet(c, "write") /\ op[c].id = i /\ result[c] = Ok


\* ---------------------------------------------------------------------- C23
\* the reads of relay i whose event was emitted: all of them but the one the
\* relay is about to emit
ReadsEmitted(i) == Len(readLog[i]) - (IF relay[i] = "emit" THEN 1 ELSE 0)

\* C23: the relay emits one output event per read of one byte or more and no
\* other event: the events of a session are as many as its reads, every read
\* has between 1 and 4096 bytes, and the k-th event carries the decoding of
\* the k-th read alone
C23_OneEventPerRead ==
    \A i \in Ids :
        /\ Len(outEvents[i]) = ReadsEmitted(i)
        /\ \A k \in 1..Len(readLog[i]) :
                Len(readLog[i][k]) >= 1 /\ Len(readLog[i][k]) <= BufSize
        /\ \A k \in 1..Len(outEvents[i]) :
                outEvents[i][k].data = Payload(readLog[i][k])

\* the relay read two chunks, emitted an event for each and saw the end of
\* the output
C23_Witness ==
    \E i \in Ids :
        /\ relay[i] = "done"
        /\ Len(readLog[i]) = 2
        /\ Len(outEvents[i]) = 2


FailedAttempts ==
    {i \in generated \ Registered :
        \A c \in Callers : ~(pc[c] \in {"spawn", "take_writer"} /\ spawnId[c] = i)}

\* C25: nothing outlives a failed spawn: for an id of an attempt that ended
\* in an error no relay and no watcher is running and no output or exit event
\* was emitted
C25_NothingOutlivesFailedSpawn ==
    \A i \in FailedAttempts :
        /\ relay[i] \in {"none", "done"}
        /\ watcher[i] \in {"none", "done"}
        /\ outEvents[i] = <<>>
        /\ exitEvents[i] = <<>>

\* a spawn failed to clone the reader, before any thread was started
C25_Witness ==
    \E c \in Callers, i \in FailedAttempts :
        /\ AtRet(c, "spawn")
        /\ result[c] = Err("Failed to clone reader")
        /\ relay[i] = "none"
        /\ watcher[i] = "none"

\* a spawn failed to take the writer, and an output event with the id of the
\* attempt is emitted after the error was returned
C25_WitnessLeak ==
    \E c \in Callers, i \in FailedAttempts :
        /\ AtRet(c, "spawn")
        /\ result[c] = Err("Failed to take writer")
        /\ relay[i] = "read"
        /\ outEvents[i] # <<>>


\* ---------------------------------------------------------------------- C26
\* pty_write, invoked while the ptys have taken less than cap bytes of input
pty_write_upto(c, cap) ==
    \E o \in Ops :
        /\ o.kind = "write"
        /\ SumLen(stdin, Ids) + Len(o.data) <= cap
        /\ StateLock(c, o)

\* spawn, write and kill on the threads of several callers, with room for the
\* data of two writes
NextWrites ==
    \E c \in Callers :
        \/ SpawnStep(c)
        \/ pty_write_upto(c, MaxInWrites)
        \/ write(c)
        \/ write_all(c)
        \/ flush(c)
        \/ KillStep(c)

SpecWrites == Init /\ [][NextWrites]_vars

\* caller c is between the lookup of a write and its return
InsideWrite(c) == pc[c] \in {"write_all", "flush"}

\* C26: while a write on a session is between its lookup and its return the
\* session stays in the collection and no other caller is inside a write or a
\* kill of that session, and an ok write has appended all of its data in one
\* piece to the input the session had when the write was invoked: two ok
\* writes give b1 b2 or b2 b1
C26_WritesSerialized ==
    \A c \in Callers :
        /\ InsideWrite(c) =>
            /\ op[c].id \in DOMAIN instances
            /\ \A d \in Callers \ {c} :
                    ~(op[d].id = op[c].id /\ (InsideWrite(d) \/ pc[d] = "kill"))
        /\ (AtRet(c, "write") /\ result[c] = Ok) =>
            /\ op[c].id \in DOMAIN instances
            /\ stdin[op[c].id] = before[c].stdin[op[c].id] \o op[c].data

\* the second of two ok writes on one session is returning: the input is the
\* data of the one followed by the data of the other
C26_Witness ==
    \E c \in Callers :
        /\ AtRet(c, "write")
        /\ result[c] = Ok
        /\ before[c].stdin[op[c].id] = op[c].data
        /\ stdin[op[c].id] = op[c].data \o op[c].data

\* a kill of a session is returning ok right after an ok write on it
C26_WitnessKill ==
    \E c \in Callers :
        /\ AtRet(c, "kill")
        /\ result[c] = Ok
        /\ op[c].id \in DOMAIN before[c].instances
        /\ before[c].stdin[op[c].id] # <<>>


\* ---------------------------------------------------------------------- C27
\* C27: the lock of the collection is held only by the caller that holds the
\* lock of the PtyState, so the two are taken in the order outer, inner; a
\* caller with no command running holds neither, whether its command returned
\* ok or an error; and a caller inside a command always has a next step, so no
\* command waits for a lock that is never released
C27_LockOrderNoDeadlock ==
    /\ innerLock # 0 => outerLock = innerLock
    /\ \A c \in Callers :
        /\ pc[c] = "idle" => (outerLock # c /\ innerLock # c)
        /\ pc[c] # "idle" => ENABLED CallerStep(c)
        /\ (pc[c] \notin {"idle", "ret"}) => outerLock = c
    /\ (outerLock = 0 /\ \E c \in Callers : pc[c] = "idle") =>
            \E c \in Callers : ENABLED pty_kill(c)

\* a write is returning an error while it holds both locks, and another
\* session is registered
C27_Witness ==
    \E c \in Callers :
        /\ AtRet(c, "write")
        /\ result[c] = Err("Flush error")
        /\ outerLock = c
        /\ innerLock = c
        /\ DOMAIN instances \ {op[c].id} # {}


\* ---------------------------------------------------------------------- C28
\* caller c takes the step of PtyManager::kill
KillMoves(c) == pc[c] = "kill" /\ pc'[c] = "ret"

\* C28: the step of kill(id) keeps every other session in the collection with
\* its writer and master, moves no relay, watcher or process and changes no
\* pty; and a write or a resize invoked on another registered session after
\* the kill finds it
C28_KillRemovesOnlyItsId ==
    /\ [][\A c \in Callers :
            KillMoves(c) =>
                /\ \A j \in DOMAIN instances \ {op[c].id} :
                        j \in DOMAIN instances' /\ instances'[j] = instances[j]
                /\ UNCHANGED <<generated, inserts, ptyVars, workerVars>>]_vars
    /\ [](\A c \in Callers :
            (/\ pc[c] = "ret"
             /\ op[c].kind \in {"write", "resize"}
             /\ op[c].id \in DOMAIN before[c].instances)
            => result[c] # NotFound)

\* a kill of one of two registered sessions is returning, and the other is
\* still registered
C28_Witness ==
    \E c \in Callers :
        /\ AtRet(c, "kill")
        /\ result[c] = Ok
        /\ op[c].id \in DOMAIN before[c].instances
        /\ DOMAIN instances = DOMAIN before[c].instances \ {op[c].id}
        /\ DOMAIN instances # {}

\* a write on a session is returning ok after another session was killed
C28_WitnessWrite ==
    \E c \in Callers :
        /\ AtRet(c, "write")
        /\ result[c] = Ok
        /\ Registered \ DOMAIN instances # {}


\* ---------------------------------------------------------------------- C29
\* read_settings().enabled_plugins of a content, as the next reader sees it
EnabledIn(content) == read_settings(content, TRUE)

\* read_permissions() of a content: the permissions field, or none
PermissionsIn(content) ==
    IF Parses(content) /\ content.kind = "object" THEN content.perm ELSE Absent

\* read_mcp_servers() of a content
ServersIn(content) ==
    IF Parses(content) /\ content.kind = "object" THEN McpServers(content) ELSE {}

\* the readers of a content see the effect of update o
Reflects(o, content) ==
    CASE o.kind = "enable" -> o.arg \in EnabledIn(content)
      [] o.kind = "disable" -> o.arg \notin EnabledIn(content)
      [] o.kind = "permissions" -> PermissionsIn(content) = Present(o.arg)
      [] o.kind = "install" -> o.arg \in ServersIn(content)
      [] o.kind = "remove" -> o.arg \notin ServersIn(content)
      [] OTHER -> TRUE

\* updates of different fields, or of different keys of one field
DifferentTargets(o1, o2) ==
    OwnField(o1.kind) # OwnField(o2.kind) \/ o1.arg # o2.arg

\* the update of u has returned ok
ReturnedOk(u) == upc[u] \in {"ret", "idle"} /\ uresult[u] = Ok

\* C29: when two updates of different fields or keys that were invoked on the
\* same content of settings.json, neither having renamed when the other
\* started, have both returned ok, settings.json shows the effect of both
C29_NoLostUpdate ==
    \A u, v \in Updaters :
        (/\ u # v
         /\ ReturnedOk(u)
         /\ ReturnedOk(v)
         /\ DifferentTargets(uop[u], uop[v])
         /\ ubefore[u] = ubefore[v])
        => Reflects(uop[u], settingsFile) /\ Reflects(uop[v], settingsFile)

\* equip_item(p2) and set_permissions(x1) overlapped, both read settings.json
\* with its unknown field, both returned ok, and the file has the permissions
\* without the plugin
C29_Witness ==
    \E u, v \in Updaters :
        /\ uop[u] = [kind |-> "enable", arg |-> "p2"]
        /\ uop[v] = [kind |-> "permissions", arg |-> "x1"]
        /\ ReturnedOk(u)
        /\ ReturnedOk(v)
        /\ ubefore[u] = ubefore[v]
        /\ uval[u].other = Present("o1")
        /\ uval[v].other = Present("o1")
        /\ settingsFile = uval[v]
        /\ ~Reflects(uop[u], settingsFile)

\* ---------------------------------------------------------------------- C30
\* C30: an update that returns ok has taken effect: at the rename that makes
\* enable_plugin(p), disable_plugin(p) or write_permissions(x) return ok,
\* whatever settings.json held before, the readers of the new settings.json
\* see p enabled, p absent from the enabled plugins, or the permissions x
C30_OkTookEffect ==
    [][\A u \in Updaters :
          (/\ upc[u] = "rename"
           /\ upc'[u] = "ret"
           /\ uresult'[u] = Ok
           /\ uop[u].kind \in {"enable", "disable", "permissions"})
          => Reflects(uop[u], settingsFile')]_vars

\* enable_plugin(p2) returned ok on a settings.json that did not exist, and
\* the plugin is enabled in the file
C30_Witness ==
    \E u \in Updaters :
        /\ uop[u] = [kind |-> "enable", arg |-> "p2"]
        /\ ReturnedOk(u)
        /\ ubefore[u] = NoFile
        /\ settingsFile.kind = "object"
        /\ "p2" \in EnabledIn(settingsFile)

====
